---- MODULE Spec2Model ----
(***************************************************************************)
(* Model of the Context DB side panel (chrome_extension/content.js): the   *)
(* panel lifecycle, the save operation, the panel search with its ALL      *)
(* scope fan-out and merge, and the selection set over the displayed       *)
(* results.  Every asynchronous operation (fetch, timer) is an in-flight   *)
(* record in the state; its settlement is a separate action, so handlers   *)
(* interleave exactly at the awaits of the code.                           *)
(***************************************************************************)
EXTENDS Integers, Sequences, FiniteSets, TLC

\* ------------------------------------------------------------------ bounds
MaxSaves == 2
MaxSearches == 2
MaxLoads == 1
MaxRows == 2
MaxMergeRows == 3
MaxSingleRows == 6
MaxCorpus == 7
MaxInbox == 2
MaxOps == 3
MaxDeclined == 1

\* ------------------------------------------------------- program constants
DefaultLimit == 10
MinPerDb == 5
PreviewMin == 3
PreviewMax == 200

\* Option values of the limit and min-score selects (content.js:210-219);
\* the min score is kept in percent.
DefaultUrl == "http://127.0.0.1:8000"
Urls == {DefaultUrl, "http://b1", "http://b2"}
LimitOptions == {5, 10, 20}
MinScoreOptions == {30, 50, 70}
ALL == "__ALL__"
NoDb == ""

\* ------------------------------------------------------------ environment
\* Names of the sources the backend may hold, in enumeration order.
SourceNames == <<"A", "B", "C">>
\* A /databases response: the first n sources.
DbList(n) == SubSeq(SourceNames, 1, n)
BackendLists == {DbList(n) : n \in 0..2}
MergeLists == {DbList(n) : n \in 0..3}
Names(list) == {list[i] : i \in 1..Len(list)}

\* Similarity scores the backend may report (percent).
Scores == {40, 80}

\* Text of a selection event, after trim(), with its length.
TextLen(t) ==
    CASE t = "" -> 0 [] t = "abc" -> 3 [] t = "text1" -> 5 [] t = "text2" -> 5
      [] t = "long" -> 201
SelectionTexts == {"", "abc", "text1", "text2", "long"}
\* The preview of updatePanelWithSelectedText (content.js:264-266): the text,
\* or its first 200 characters and an ellipsis.
Preview(t) == IF TextLen(t) > PreviewMax THEN "lon..." ELSE t

IdleLabel == "Save Selected Text"
SavingLabel == "Saving..."

VARIABLES
    \* panel lifecycle and Add tab
    isPanelOpen,        \* content.js:8
    selectedText,       \* content.js:3
    selectedDatabase,   \* content.js:7 (setting)
    previewVisible,     \* #contextdb-selected-text display
    previewText,        \* #contextdb-text-preview content
    dbOptions,          \* options of #contextdb-database-select
    dbValue,            \* its value
    dimmed,             \* .contextdb-panel-body opacity 0.6
    saveDisabled,       \* #contextdb-save-btn disabled
    saveLabel,          \* #contextdb-save-btn textContent
    notifVisible,       \* #contextdb-status display
    statusVisible,      \* #contextdb-save-status display
    timers,             \* pending setTimeout callbacks
    saves,              \* add-text requests, by save id
    closedCompletion,   \* a save completed on the closed panel, not reopened since
    panelLoads,         \* loadDatabasesForPanel fetches in flight
    \* Search tab
    searchOptions,      \* options of #contextdb-search-db
    searchDbValue,      \* its value
    limitValue,         \* #contextdb-search-limit value
    minScoreValue,      \* #contextdb-search-minscore value
    searchLoads,        \* loadDatabasesForSearch fetches in flight
    searches,           \* performPanelSearch invocations, by search id
    resultsView,        \* what #contextdb-search-results shows
    displayed,          \* the rendered result rows
    displayedBy,        \* id of the search that rendered them (0: none)
    lastDone,           \* the search that completed last, with its responses
    checkedBoxes,       \* checked state of the rendered checkboxes
    searchSelectedResults, \* content.js:12, a Set: its members in insertion order
    actionsVisible,     \* #contextdb-context-actions display
    countText,          \* #contextdb-selected-count
    createDisabled,     \* #contextdb-create-context disabled
    summary,            \* #contextdb-search-summary: -1 empty, else the count
    listReqs,           \* GET /databases issued by searches
    searchReqs,         \* POST /search issued
    completedClosed,    \* the last search to complete did so on the closed panel
    contextText,        \* #contextdb-context-text: the entries of the composed context
    contextVisible,     \* #contextdb-context-output display
    \* tabs and settings
    activePanelTab,     \* content.js:11
    visibleTab,         \* which tab content has display block
    storedTab,          \* activePanelTab in chrome.storage.sync ("none": unset)
    tabWrite,           \* the storage.sync.set of activePanelTab in flight ("none": none)
    storedDatabase,     \* selectedDatabase in chrome.storage.sync
    settings,           \* loadSettings: "pending", "read", "loaded" or "failed"
    \* panel frame and backend address
    minimized,          \* class contextdb-panel-minimized of the panel
    serverUrl,          \* content.js:5
    storedUrl,          \* serverUrl in chrome.storage.sync ("none": unset)
    inbox,              \* what the settings store has sent the script, not yet delivered
    pageSelection,      \* the trimmed text of the page's selection
    \* popup (background.js:269-491)
    databases,          \* background.js:271: the names of the cached source list
    listShown,          \* the names rendered in #databaseList
    createBtn,          \* #createDbBtn: "idle", or "creating" (disabled, 'Creating...')
    popupOps,           \* createDatabase / deleteDatabase invocations, by id
    createReqs,         \* POST /databases issued
    deleteReqs,         \* DELETE /databases/<name> issued
    popupNotice,        \* the last showNotification
    declined,           \* confirmations the user declined
    created,            \* names a createDatabase succeeded for, not deleted since
    backendDbs,         \* the names the backend holds
    \* backend
    corpus              \* per source, the scores of the rows it holds, best first

addVars == <<isPanelOpen, selectedText, selectedDatabase, previewVisible, previewText,
             dbOptions, dbValue, dimmed, saveDisabled, saveLabel, notifVisible,
             statusVisible, timers, saves, closedCompletion, panelLoads>>
searchVars == <<searchOptions, searchDbValue, limitValue, minScoreValue, searchLoads,
                searches, resultsView, displayed, displayedBy, lastDone, checkedBoxes,
                searchSelectedResults, actionsVisible, countText, createDisabled,
                summary, listReqs, searchReqs, completedClosed, contextText,
                contextVisible>>
tabVars == <<activePanelTab, visibleTab, storedTab, tabWrite, storedDatabase, settings>>
sessionVars == <<minimized, serverUrl, storedUrl, inbox>>
popupVars == <<databases, listShown, createBtn, popupOps, createReqs, deleteReqs,
               popupNotice, declined, created, backendDbs>>
panelVars == <<addVars, searchVars, corpus, tabVars, sessionVars, pageSelection>>
vars == <<panelVars, popupVars>>

\* Everything a search handler leaves alone.
searchUIVars == <<resultsView, displayed, displayedBy, lastDone, checkedBoxes, searchSelectedResults,
                  actionsVisible, countText, createDisabled, summary, completedClosed>>
contextVars == <<contextText, contextVisible>>
searchFormVars == <<searchOptions, searchDbValue, limitValue, minScoreValue>>
netVars == <<listReqs, searchReqs>>
saveUIVars == <<dimmed, saveDisabled, saveLabel>>
noticeVars == <<notifVisible, statusVisible>>

SaveIds == 1..MaxSaves
SearchIds == 1..MaxSearches

NoSave == [st |-> "none", db |-> NoDb, text |-> ""]
NoSearch == [st |-> "none", scope |-> NoDb, limit |-> 0, minScore |-> 0,
             dbs |-> <<>>, perDb |-> 0, resp |-> <<>>]
\* A settled search: its id is spent, its requests are gone.
Done == [NoSearch EXCEPT !.st = "done"]

\* -------------------------------------------------------------- helpers
Max(a, b) == IF a >= b THEN a ELSE b
Min(a, b) == IF a <= b THEN a ELSE b
\* Math.ceil(a / b) for a >= 0, b > 0
CeilDiv(a, b) == (a + b - 1) \div b

\* The free save / search id the next invocation takes.
FreeSave == {s \in SaveIds : saves[s].st = "none"}
FreeSearch == {s \in SearchIds : searches[s].st = "none"}
NextSave == CHOOSE s \in FreeSave : \A t \in FreeSave : s <= t
NextSearch == CHOOSE s \in FreeSearch : \A t \in FreeSearch : s <= t

\* Set.prototype.add, delete and has on a Set kept in insertion order.
SetHas(set, x) == \E k \in 1..Len(set) : set[k] = x
SetAdd(set, x) == IF SetHas(set, x) THEN set ELSE Append(set, x)
SetDelete(set, x) == SelectSeq(set, LAMBDA y : y # x)

\* select.value = v: a value that is no option leaves nothing selected.
SelectValue(options, v) == IF v \in options THEN v ELSE NoDb


\* ============================================================== lifecycle
\* loadDatabasesForSearch skips the fetch while the query input has the focus
\* (content.js:455-459); whether it has is the caller's choice `typing`.
StartSearchLoad(typing) ==
    searchLoads' = IF typing THEN searchLoads ELSE searchLoads + 1

\* A capture that refreshes the preview only while the Add tab is the active
\* one.
SelectionCapturedActiveTabOnly(t, typing) ==
    /\ TextLen(t) > PreviewMin
    /\ isPanelOpen \/ (panelLoads < MaxLoads /\ (typing \/ searchLoads < MaxLoads))
    /\ pageSelection' = t
    /\ selectedText' = t
    /\ isPanelOpen' = TRUE
    /\ IF isPanelOpen
         THEN UNCHANGED <<panelLoads, searchLoads>>
         ELSE panelLoads' = panelLoads + 1 /\ StartSearchLoad(typing)
    /\ previewText' = IF activePanelTab = "add" THEN Preview(t) ELSE previewText
    /\ previewVisible' = IF activePanelTab = "add" THEN TRUE ELSE previewVisible
    /\ saveDisabled' = (dbValue = NoDb)
    /\ saveLabel' = IdleLabel
    /\ closedCompletion' = FALSE
    /\ UNCHANGED <<selectedDatabase, dbOptions, dbValue, dimmed, noticeVars, timers, saves>>
    /\ UNCHANGED <<searchFormVars, searches, searchUIVars, netVars, corpus, popupVars, tabVars, sessionVars,
                   contextVars>>

\* A capture whose showSidePanel loads the source lists on the open panel too.
SelectionCapturedReloading(t, typing) ==
    /\ TextLen(t) > PreviewMin
    /\ panelLoads < MaxLoads /\ (typing \/ searchLoads < MaxLoads)
    /\ pageSelection' = t
    /\ selectedText' = t
    /\ isPanelOpen' = TRUE
    /\ panelLoads' = panelLoads + 1 /\ StartSearchLoad(typing)
    /\ previewText' = Preview(t)
    /\ previewVisible' = TRUE
    /\ saveDisabled' = (dbValue = NoDb)
    /\ saveLabel' = IdleLabel
    /\ closedCompletion' = FALSE
    /\ UNCHANGED <<selectedDatabase, dbOptions, dbValue, dimmed, noticeVars, timers, saves>>
    /\ UNCHANGED <<searchFormVars, searches, searchUIVars, netVars, corpus, popupVars, tabVars, sessionVars,
                   contextVars>>

\* setTimeout callback of handleTextSelection (content.js:84-96) with the
\* trimmed selection `t`, including showSidePanel and updatePanelWithSelectedText.
SelectionCaptured(t, typing) ==
    /\ TextLen(t) > PreviewMin
    /\ isPanelOpen \/ (panelLoads < MaxLoads /\ (typing \/ searchLoads < MaxLoads))
    /\ pageSelection' = t
    /\ selectedText' = t
    /\ isPanelOpen' = TRUE
    /\ IF isPanelOpen
         THEN UNCHANGED <<panelLoads, searchLoads>>
         ELSE panelLoads' = panelLoads + 1 /\ StartSearchLoad(typing)
    /\ previewText' = Preview(t)
    /\ previewVisible' = TRUE
    /\ saveDisabled' = (dbValue = NoDb)
    /\ saveLabel' = IdleLabel
    /\ closedCompletion' = FALSE
    /\ UNCHANGED <<selectedDatabase, dbOptions, dbValue, dimmed, noticeVars, timers, saves>>
    /\ UNCHANGED <<searchFormVars, searches, searchUIVars, netVars, corpus, popupVars, tabVars, sessionVars,
                   contextVars>>

\* clearSelectedText (content.js:281-303)
clearSelectedText ==
    /\ selectedText' = ""
    /\ previewVisible' = FALSE
    /\ previewText' = ""
    /\ saveDisabled' = TRUE
    /\ saveLabel' = IdleLabel
    /\ pageSelection' = ""

\* A clear that also closes the panel.
SelectionClearedHiding ==
    /\ clearSelectedText
    /\ isPanelOpen' = FALSE
    /\ UNCHANGED <<selectedDatabase, dbOptions, dbValue, dimmed, noticeVars,
                   timers, saves, closedCompletion, panelLoads>>
    /\ UNCHANGED <<searchVars, corpus, popupVars, tabVars, sessionVars>>

\* The same callback with an empty selection, and the Clear Selection button.
SelectionCleared ==
    /\ clearSelectedText
    /\ UNCHANGED <<isPanelOpen, selectedDatabase, dbOptions, dbValue, dimmed, noticeVars,
                   timers, saves, closedCompletion, panelLoads>>
    /\ UNCHANGED <<searchVars, corpus, popupVars, tabVars, sessionVars>>

\* A short selection handled as an empty one.
SelectionIgnoredClearing(t) ==
    /\ t # "" /\ TextLen(t) <= PreviewMin
    /\ clearSelectedText
    /\ UNCHANGED <<isPanelOpen, selectedDatabase, dbOptions, dbValue, dimmed, noticeVars,
                   timers, saves, closedCompletion, panelLoads>>
    /\ UNCHANGED <<searchVars, corpus, popupVars, tabVars, sessionVars>>

\* A selection of 1..3 characters takes neither branch (content.js:88-95).
SelectionIgnored(t) ==
    /\ t # "" /\ TextLen(t) <= PreviewMin
    /\ pageSelection' = t
    /\ UNCHANGED <<addVars, searchVars, corpus, popupVars, tabVars, sessionVars>>

\* hideSidePanel without the forced reset of the loading state.
hideSidePanelNoReset ==
    /\ isPanelOpen
    /\ isPanelOpen' = FALSE
    /\ UNCHANGED <<selectedText, selectedDatabase, previewVisible, previewText, dbOptions,
                   dbValue, saveUIVars, noticeVars, timers, saves, closedCompletion, panelLoads>>
    /\ UNCHANGED <<searchVars, corpus, popupVars, tabVars, sessionVars, pageSelection>>

\* A close that abandons the requests in flight.
hideSidePanelAborting ==
    /\ isPanelOpen
    /\ dimmed' = FALSE
    /\ saveDisabled' = (selectedText = "")
    /\ saveLabel' = IdleLabel
    /\ isPanelOpen' = FALSE
    /\ saves' = [s \in SaveIds |-> IF saves[s].st = "flight" THEN NoSave ELSE saves[s]]
    /\ searches' = [s \in SearchIds |->
                       IF searches[s].st \in {"list", "fan", "single"} THEN Done
                       ELSE searches[s]]
    /\ UNCHANGED <<selectedText, selectedDatabase, previewVisible, previewText, dbOptions,
                   dbValue, noticeVars, timers, closedCompletion, panelLoads>>
    /\ UNCHANGED <<searchFormVars, searchUIVars, netVars, searchLoads, contextVars, corpus, popupVars,
                   tabVars, sessionVars, pageSelection>>

\* hideSidePanel (content.js:306-314) with forceHideLoadingState (858-892):
\* the close button and the Escape key.
hideSidePanel ==
    /\ isPanelOpen
    /\ dimmed' = FALSE
    /\ saveDisabled' = (selectedText = "")
    /\ saveLabel' = IdleLabel
    /\ isPanelOpen' = FALSE
    /\ UNCHANGED <<selectedText, selectedDatabase, previewVisible, previewText, dbOptions,
                   dbValue, noticeVars, timers, saves, closedCompletion, panelLoads>>
    /\ UNCHANGED <<searchVars, corpus, popupVars, tabVars, sessionVars, pageSelection>>

\* change listener of the database select (content.js:347-355)
DbSelectChange(v) ==
    /\ isPanelOpen
    /\ v \in dbOptions
    /\ v # dbValue
    /\ dbValue' = v
    /\ saveDisabled' = ~(v # NoDb /\ selectedText # "")
    /\ UNCHANGED <<isPanelOpen, selectedText, selectedDatabase, previewVisible, previewText,
                   dbOptions, dimmed, saveLabel, noticeVars, timers, saves, closedCompletion, panelLoads>>
    /\ UNCHANGED <<searchVars, corpus, popupVars, tabVars, sessionVars, pageSelection>>

\* chrome.storage.onChanged listener, selectedDatabase key (content.js:60-66)
SelectedDatabaseChanged(d) ==
    /\ d # storedDatabase
    /\ storedDatabase' = d
    /\ selectedDatabase' = d
    /\ UNCHANGED <<isPanelOpen, selectedText, previewVisible, previewText, dbOptions, dbValue,
                   saveUIVars, noticeVars, timers, saves, closedCompletion, panelLoads>>
    /\ UNCHANGED <<searchVars, corpus, popupVars, activePanelTab, visibleTab, storedTab, tabWrite,
                   settings, sessionVars, pageSelection>>

\* A message of the settings store to the content script: the result of the
\* get of loadSettings, or a change notification.
Msg(kind, url, db, tab) == [kind |-> kind, url |-> url, db |-> db, tab |-> tab]

\* The settings store serves the chrome.storage.sync.get of loadSettings
\* (content.js:26): the values it holds now.
SettingsRead ==
    /\ settings = "pending"
    /\ settings' = "read"
    /\ inbox' = Append(inbox, Msg("settings", storedUrl, storedDatabase, storedTab))
    /\ UNCHANGED <<addVars, searchVars, corpus, popupVars, activePanelTab, visibleTab, storedTab,
                   tabWrite, storedDatabase, minimized, serverUrl, storedUrl, pageSelection>>

\* loadSettings resumes after its await (content.js:26-35) with the values
\* read, or in the catch branch when the get is rejected.
SettingsLoaded(ok) ==
    /\ IF ok THEN settings = "read" /\ inbox # <<>> /\ Head(inbox).kind = "settings"
             ELSE settings = "pending"
    /\ settings' = IF ok THEN "loaded" ELSE "failed"
    /\ inbox' = IF ok THEN Tail(inbox) ELSE inbox
    /\ serverUrl' = IF ~ok THEN serverUrl
                    ELSE IF Head(inbox).url = "none" THEN DefaultUrl ELSE Head(inbox).url
    /\ selectedDatabase' = IF ok THEN Head(inbox).db ELSE selectedDatabase
    /\ activePanelTab' = IF ~ok THEN activePanelTab
                         ELSE IF Head(inbox).tab = "none" THEN "add" ELSE Head(inbox).tab
    /\ UNCHANGED <<isPanelOpen, selectedText, previewVisible, previewText, dbOptions, dbValue,
                   saveUIVars, noticeVars, timers, saves, closedCompletion, panelLoads>>
    /\ UNCHANGED <<searchVars, corpus, popupVars, visibleTab, storedTab, tabWrite, storedDatabase,
                   minimized, storedUrl, pageSelection>>

\* The options page stores another backend address; the store queues the
\* change notification for the content script.
ServerUrlWritten(u) ==
    /\ u \in Urls
    /\ u # storedUrl
    /\ Len(inbox) < MaxInbox
    /\ storedUrl' = u
    /\ inbox' = Append(inbox, Msg("changed", u, NoDb, "none"))
    /\ UNCHANGED <<addVars, searchVars, corpus, popupVars, tabVars, minimized, serverUrl, pageSelection>>

\* chrome.storage.onChanged listener, serverUrl key (content.js:59-62)
ServerUrlNotified ==
    /\ inbox # <<>>
    /\ Head(inbox).kind = "changed"
    /\ serverUrl' = Head(inbox).url
    /\ inbox' = Tail(inbox)
    /\ UNCHANGED <<addVars, searchVars, corpus, popupVars, tabVars, minimized, storedUrl, pageSelection>>

\* The address a fetch issued in this state goes to (content.js:462, 511, 516,
\* 530, 738, 799): each interpolates the variable serverUrl.
RequestUrl == serverUrl

\* A minimize toggle that also resets the loading state, as the close does.
togglePanelMinimizedResetting ==
    /\ isPanelOpen
    /\ minimized' = ~minimized
    /\ dimmed' = FALSE
    /\ saveDisabled' = (selectedText = "")
    /\ saveLabel' = IdleLabel
    /\ UNCHANGED <<isPanelOpen, selectedText, selectedDatabase, previewVisible, previewText,
                   dbOptions, dbValue, noticeVars, timers, saves, closedCompletion,
                   panelLoads>>
    /\ UNCHANGED <<searchVars, corpus, popupVars, tabVars, serverUrl, storedUrl, inbox, pageSelection>>

\* togglePanelMinimized (content.js:721-725): click on the minimize button of
\* the header
togglePanelMinimized ==
    /\ isPanelOpen
    /\ minimized' = ~minimized
    /\ UNCHANGED <<addVars, searchVars, corpus, popupVars, tabVars, serverUrl, storedUrl, inbox, pageSelection>>

\* switchPanelTab (content.js:418-446) from the click listener of a tab
\* button (327-338): the tab's content is shown, the Search tab reloads its
\* source list (443; the click has taken the focus from the query box), and
\* the tab is written to the settings store.
switchPanelTab(tab) ==
    /\ isPanelOpen
    /\ tab \in {"add", "search"}
    /\ tab = "search" => searchLoads < MaxLoads
    /\ activePanelTab' = tab
    /\ visibleTab' = tab
    /\ searchLoads' = IF tab = "search" THEN searchLoads + 1 ELSE searchLoads
    /\ tabWrite' = tab
    /\ UNCHANGED <<searchOptions, searchDbValue, limitValue, minScoreValue, searches,
                   searchUIVars, contextVars, netVars>>
    /\ UNCHANGED <<addVars, corpus, popupVars, storedTab, storedDatabase, settings, sessionVars, pageSelection>>

\* The chrome.storage.sync.set of switchPanelTab (content.js:445) takes effect.
TabWriteApplied ==
    /\ tabWrite # "none"
    /\ storedTab' = tabWrite
    /\ tabWrite' = "none"
    /\ UNCHANGED <<addVars, searchVars, corpus, popupVars, activePanelTab, visibleTab, storedDatabase,
                   settings, sessionVars, pageSelection>>

\* loadDatabasesForPanel settles (content.js:734-759): `ok` with the list, or
\* the catch branch.
PanelLoadSettle(ok, list) ==
    /\ panelLoads > 0
    /\ panelLoads' = panelLoads - 1
    /\ dbOptions' = IF ok THEN {NoDb} \cup Names(list) ELSE {NoDb}
    /\ dbValue' = IF ok THEN SelectValue({NoDb} \cup Names(list), selectedDatabase) ELSE NoDb
    /\ UNCHANGED <<isPanelOpen, selectedText, selectedDatabase, previewVisible, previewText,
                   saveUIVars, noticeVars, timers, saves, closedCompletion>>
    /\ UNCHANGED <<searchVars, corpus, popupVars, tabVars, sessionVars, pageSelection>>

\* ==================================================================== save
\* A save that sends its request without checking the text and the database.
SaveRequestedNoValidation ==
    /\ isPanelOpen
    /\ ~saveDisabled
    /\ FreeSave # {}
    /\ dimmed' = TRUE
    /\ saveDisabled' = TRUE
    /\ saveLabel' = SavingLabel
    /\ saves' = [saves EXCEPT ![NextSave] =
                    [st |-> "flight", db |-> dbValue, text |-> selectedText]]
    /\ UNCHANGED <<notifVisible, timers>>
    /\ UNCHANGED <<isPanelOpen, selectedText, selectedDatabase, previewVisible, previewText,
                   dbOptions, dbValue, statusVisible, closedCompletion, panelLoads>>
    /\ UNCHANGED <<searchVars, corpus, popupVars, tabVars, sessionVars, pageSelection>>

\* saveTextToDatabase up to its await (content.js:762-805).  A disabled button
\* fires no click.  showPanelNotification (895-923) resets the loading state
\* and schedules the notice.
SaveRequested ==
    /\ isPanelOpen
    /\ ~saveDisabled
    /\ FreeSave # {}
    /\ IF selectedText = "" \/ dbValue = NoDb
         THEN /\ dimmed' = FALSE
              /\ saveDisabled' = (selectedText = "")
              /\ saveLabel' = IdleLabel
              /\ notifVisible' = FALSE
              /\ timers' = timers \cup {"notifShow"}
              /\ UNCHANGED saves
         ELSE /\ dimmed' = TRUE
              /\ saveDisabled' = TRUE
              /\ saveLabel' = SavingLabel
              /\ saves' = [saves EXCEPT ![NextSave] =
                              [st |-> "flight", db |-> dbValue, text |-> selectedText]]
              /\ UNCHANGED <<notifVisible, timers>>
    /\ UNCHANGED <<isPanelOpen, selectedText, selectedDatabase, previewVisible, previewText,
                   dbOptions, dbValue, statusVisible, closedCompletion, panelLoads>>
    /\ UNCHANGED <<searchVars, corpus, popupVars, tabVars, sessionVars, pageSelection>>

\* The timers a settled save schedules: the notice and the status line on every
\* path, the delayed clearSelectedText and reload on success (content.js:812-836).
SaveTimers(outcome) ==
    {"notifShow", "statusShow"}
    \cup IF outcome = "ok" THEN {"clearText", "reloadDbs"} ELSE {}

\* A save whose failure paths skip the handlers and the finally block.
SaveSettledNoCleanup(s, outcome) ==
    /\ saves[s].st = "flight"
    /\ saves' = [saves EXCEPT ![s].st = outcome]
    /\ closedCompletion' = ~isPanelOpen
    /\ IF outcome = "ok"
         THEN /\ notifVisible' = FALSE
              /\ statusVisible' = FALSE
              /\ timers' = timers \cup SaveTimers(outcome)
              /\ dimmed' = FALSE
              /\ saveDisabled' = ~(dbValue # NoDb /\ selectedText # "")
              /\ saveLabel' = IdleLabel
         ELSE UNCHANGED <<noticeVars, timers, saveUIVars>>
    /\ UNCHANGED <<isPanelOpen, selectedText, selectedDatabase, previewVisible, previewText,
                   dbOptions, dbValue, panelLoads>>
    /\ UNCHANGED <<searchVars, corpus, popupVars, tabVars, sessionVars, pageSelection>>

\* The add-text request of save `s` settles (content.js:807-855): "ok", a
\* non-success status ("http") or a network exception ("net").  The catch
\* branch and the success branch both notify; the finally block restores the
\* panel body and the button from the current selections.
SaveSettled(s, outcome) ==
    /\ saves[s].st = "flight"
    /\ saves' = [saves EXCEPT ![s].st = outcome]
    /\ closedCompletion' = ~isPanelOpen
    /\ notifVisible' = FALSE
    /\ statusVisible' = FALSE
    /\ timers' = timers \cup SaveTimers(outcome)
    /\ dimmed' = FALSE
    /\ saveDisabled' = ~(dbValue # NoDb /\ selectedText # "")
    /\ saveLabel' = IdleLabel
    /\ UNCHANGED <<isPanelOpen, selectedText, selectedDatabase, previewVisible, previewText,
                   dbOptions, dbValue, panelLoads>>
    /\ UNCHANGED <<searchVars, corpus, popupVars, tabVars, sessionVars, pageSelection>>

\* ================================================================== timers
\* A pending setTimeout callback fires: the notice (content.js:909-922), the
\* status line (700-717), the delayed clearSelectedText (824-826) and the
\* delayed reload of the database list (829-831).
TimerFired(t) ==
    /\ t \in timers
    /\ t = "reloadDbs" => panelLoads < MaxLoads
    /\ timers' = (timers \ {t}) \cup
                   (CASE t = "notifShow" -> {"notifHide"}
                      [] t = "statusShow" -> {"statusHide"}
                      [] OTHER -> {})
    /\ notifVisible' = (CASE t = "notifShow" -> TRUE
                          [] t = "notifHide" -> FALSE
                          [] OTHER -> notifVisible)
    /\ statusVisible' = (CASE t = "statusShow" -> TRUE
                           [] t = "statusHide" -> FALSE
                           [] OTHER -> statusVisible)
    /\ IF t = "clearText"
         THEN clearSelectedText
         ELSE UNCHANGED <<selectedText, previewVisible, previewText, saveDisabled, saveLabel,
                          pageSelection>>
    /\ panelLoads' = IF t = "reloadDbs" THEN panelLoads + 1 ELSE panelLoads
    /\ UNCHANGED <<isPanelOpen, selectedDatabase, dbOptions, dbValue, dimmed, saves, closedCompletion>>
    /\ UNCHANGED <<searchVars, corpus, popupVars, tabVars, sessionVars>>

\* ================================================================== search
\* Score sequences of at most n rows, and the rows of a /search response for
\* source `db` (single-source rows carry no database_name: db = NoDb).
ScoreSeqs(n) == UNION {[1..k -> Scores] : k \in 0..n}
\* The responses of 0..n rows with one score sequence per length.
DescSeqs(n) == {[i \in 1..k |-> IF i = 1 THEN 80 ELSE 40] : k \in 0..n}
Rows(sc, db) == [i \in 1..Len(sc) |-> [score |-> sc[i], db |-> db, pos |-> i]]

Pending == [st |-> "pending", rows |-> <<>>]
Failed == [st |-> "failed", rows |-> <<>>]
Ok(rows) == [st |-> "ok", rows |-> rows]

\* parseInt(limitSelect.value, 10) || 10 (content.js:500); 0 stands for NaN.
ParseLimit(v) == IF v = 0 THEN DefaultLimit ELSE v

\* A quota that only divides the limit among the sources.
PerDbNoFloor(limit, n) == CeilDiv(limit, Max(1, n))

\* A quota without the extra row.
PerDbNoOversample(limit, n) == Max(MinPerDb, CeilDiv(limit, Max(1, n)))

\* Math.max(5, Math.ceil(limit / Math.max(1, dbs.length)) + 1) (content.js:513)
PerDb(limit, n) == Max(MinPerDb, CeilDiv(limit, Max(1, n)) + 1)

\* resultsByDb.flat() (content.js:526-527): the partial results in source order.
RECURSIVE Flat(_)
Flat(resp) ==
    IF resp = <<>> THEN <<>>
    ELSE Flat(SubSeq(resp, 1, Len(resp) - 1)) \o resp[Len(resp)].rows

\* Insertion of r behind every row that does not score less.
InsertDesc(sorted, r) ==
    LET k == Cardinality({i \in 1..Len(sorted) : sorted[i].score >= r.score})
    IN SubSeq(sorted, 1, k) \o <<r>> \o SubSeq(sorted, k + 1, Len(sorted))

\* A sort that puts a row before the rows of equal score already placed.
RECURSIVE SortUnstable(_)
SortUnstable(rows) ==
    IF rows = <<>> THEN <<>>
    ELSE LET rest == SortUnstable(SubSeq(rows, 1, Len(rows) - 1))
             r == rows[Len(rows)]
             k == Cardinality({i \in 1..Len(rest) : rest[i].score > r.score})
         IN SubSeq(rest, 1, k) \o <<r>> \o SubSeq(rest, k + 1, Len(rest))

\* allResults.sort((a, b) => b.score - a.score) (content.js:539): Array sort is
\* stable, so rows of equal score keep their order.
RECURSIVE SortDesc(_)
SortDesc(rows) ==
    IF rows = <<>> THEN <<>>
    ELSE InsertDesc(SortDesc(SubSeq(rows, 1, Len(rows) - 1)), rows[Len(rows)])

\* A merge that forgets to truncate.
MergeNoSlice(resp, limit) == SortDesc(Flat(resp))

\* sort & limit (content.js:538-540)
Merge(resp, limit) ==
    LET sorted == SortDesc(Flat(resp))
    IN SubSeq(sorted, 1, Min(limit, Len(sorted)))

\* The backend's /search for one source: the rows that reach the minimum
\* score, best first, at most `limit` of them.
Qualifying(held, minScore) == SelectSeq(held, LAMBDA sc : sc >= minScore)
BackendSearch(held, limit, minScore) ==
    LET q == Qualifying(held, minScore) IN SubSeq(q, 1, Min(limit, Len(q)))

AllSettled(resp) == \A i \in 1..Len(resp) : resp[i].st # "pending"

\* updateSearchSelectionUI (content.js:650-655) for the selection `sel`
updateSearchSelectionUI(sel) ==
    /\ countText' = Len(sel)
    /\ createDisabled' = (sel = <<>>)

\* The results area is overwritten with a message: the rendered rows and
\* their checkboxes are gone.
ShowMessage(view) ==
    /\ resultsView' = view
    /\ displayed' = <<>>
    /\ displayedBy' = 0
    /\ checkedBoxes' = {}
    /\ UNCHANGED lastDone

\* renderPanelSearchResults (content.js:551-582) after the summary line (542):
\* search `s` shows its merged rows.
RenderResults(s, resp, limited) ==
    /\ lastDone' = [searches[s] EXCEPT !.st = "done", !.resp = resp]
    /\ summary' = Len(limited)
    /\ resultsView' = IF limited = <<>> THEN "noResults" ELSE "rows"
    /\ displayed' = limited
    /\ displayedBy' = s
    /\ checkedBoxes' = {}
    /\ actionsVisible' = (limited # <<>>)
    /\ completedClosed' = ~isPanelOpen
    /\ UNCHANGED <<searchSelectedResults, countText, createDisabled>>

\* A catch branch that only logs.
SearchFailedSilent ==
    /\ completedClosed' = ~isPanelOpen
    /\ UNCHANGED <<resultsView, displayed, displayedBy, lastDone, checkedBoxes, summary,
                   searchSelectedResults, countText, createDisabled, actionsVisible>>

\* The catch branch of performPanelSearch (content.js:544-548)
SearchFailed ==
    /\ summary' = -1
    /\ ShowMessage("failed")
    /\ completedClosed' = ~isPanelOpen
    /\ UNCHANGED <<searchSelectedResults, countText, createDisabled, actionsVisible>>

\* The number of failed sources the panel shows: the summary line
\* (content.js:542) names the number of rows only, and a failure shows only as
\* the "Search failed" message of the catch branch (547).
FailedShown == IF resultsView = "failed" THEN 1 ELSE 0

\* A submit that dispatches before it validates.
performPanelSearchNoValidation(q) ==
    /\ isPanelOpen
    /\ FreeSearch # {}
    /\ ShowMessage("searching")
    /\ searchSelectedResults' = <<>>
    /\ updateSearchSelectionUI(<<>>)
    /\ searches' = [searches EXCEPT ![NextSearch] =
                      [st |-> "single", scope |-> searchDbValue,
                       limit |-> ParseLimit(limitValue), minScore |-> minScoreValue,
                       dbs |-> <<searchDbValue>>, perDb |-> ParseLimit(limitValue),
                       resp |-> <<Pending>>]]
    /\ searchReqs' = searchReqs + 1
    /\ UNCHANGED <<listReqs, summary, actionsVisible, completedClosed, searchFormVars,
                   searchLoads>>
    /\ UNCHANGED <<addVars, corpus, popupVars, tabVars, sessionVars, pageSelection, contextVars>>

\* performPanelSearch up to its first await (content.js:480-535) with the
\* trimmed query `q`: the Search button and Enter in the query input.
performPanelSearch(q) ==
    /\ isPanelOpen
    /\ (q # "" /\ searchDbValue # NoDb) => FreeSearch # {}
    /\ IF q = "" \/ searchDbValue = NoDb
         THEN /\ ShowMessage(IF q = "" THEN "enterQuery" ELSE "selectDb")
              /\ UNCHANGED <<searchSelectedResults, countText, createDisabled, searches,
                             netVars>>
         ELSE /\ ShowMessage("searching")
              /\ searchSelectedResults' = <<>>
              /\ updateSearchSelectionUI(<<>>)
              /\ IF searchDbValue = ALL
                   THEN /\ searches' = [searches EXCEPT ![NextSearch] =
                                [st |-> "list", scope |-> ALL,
                                 limit |-> ParseLimit(limitValue),
                                 minScore |-> minScoreValue,
                                 dbs |-> <<>>, perDb |-> 0, resp |-> <<>>]]
                        /\ listReqs' = listReqs + 1
                        /\ UNCHANGED searchReqs
                   ELSE /\ searches' = [searches EXCEPT ![NextSearch] =
                                [st |-> "single", scope |-> searchDbValue,
                                 limit |-> ParseLimit(limitValue),
                                 minScore |-> minScoreValue,
                                 dbs |-> <<searchDbValue>>,
                                 perDb |-> ParseLimit(limitValue),
                                 resp |-> <<Pending>>]]
                        /\ searchReqs' = searchReqs + 1
                        /\ UNCHANGED listReqs
    /\ UNCHANGED <<summary, actionsVisible, completedClosed, searchFormVars, searchLoads>>
    /\ UNCHANGED <<addVars, corpus, popupVars, tabVars, sessionVars, pageSelection, contextVars>>

\* A source-list settlement that takes an empty list for a failure.
ListSettledEmptyFails(s, outcome, list) ==
    /\ searches[s].st = "list"
    /\ LET dbs == IF outcome = "ok" THEN list ELSE <<>>
           n == Len(dbs)
       IN IF outcome = "net" \/ n = 0
            THEN /\ searches' = [searches EXCEPT ![s] = Done]
                 /\ SearchFailed
                 /\ UNCHANGED searchReqs
            ELSE /\ searches' = [searches EXCEPT ![s].st = "fan", ![s].dbs = dbs,
                                                 ![s].perDb = PerDb(searches[s].limit, n),
                                                 ![s].resp = [i \in 1..n |-> Pending]]
                 /\ searchReqs' = searchReqs + n
                 /\ UNCHANGED searchUIVars
    /\ UNCHANGED <<listReqs, searchFormVars, searchLoads>>
    /\ UNCHANGED <<addVars, corpus, popupVars, tabVars, sessionVars, pageSelection, contextVars>>

\* The GET /databases of ALL-scope search `s` settles (content.js:511-526):
\* "ok" with `list`, a non-success status ("http": no sources) or a network
\* exception ("net": the catch branch).  With no source Promise.all resolves
\* at once and the search completes in the same turn.
ListSettled(s, outcome, list) ==
    /\ searches[s].st = "list"
    /\ LET dbs == IF outcome = "ok" THEN list ELSE <<>>
           n == Len(dbs)
       IN IF outcome = "net"
            THEN /\ searches' = [searches EXCEPT ![s] = Done]
                 /\ SearchFailed
                 /\ UNCHANGED searchReqs
            ELSE IF n = 0
            THEN /\ searches' = [searches EXCEPT ![s] = Done]
                 /\ RenderResults(s, <<>>, Merge(<<>>, searches[s].limit))
                 /\ UNCHANGED searchReqs
            ELSE /\ searches' = [searches EXCEPT ![s].st = "fan", ![s].dbs = dbs,
                                                 ![s].perDb = PerDb(searches[s].limit, n),
                                                 ![s].resp = [i \in 1..n |-> Pending]]
                 /\ searchReqs' = searchReqs + n
                 /\ UNCHANGED searchUIVars
    /\ UNCHANGED <<listReqs, searchFormVars, searchLoads>>
    /\ UNCHANGED <<addVars, corpus, popupVars, tabVars, sessionVars, pageSelection, contextVars>>

\* A fan-out without the per-source catch: the first failing source rejects
\* the whole search.
SourceSettledAllOrNothing(s, i, outcome, sc) ==
    /\ searches[s].st = "fan"
    /\ i \in 1..Len(searches[s].resp)
    /\ searches[s].resp[i].st = "pending"
    /\ LET resp == [searches[s].resp EXCEPT ![i] = Ok(Rows(sc, searches[s].dbs[i]))]
       IN IF outcome # "ok"
            THEN /\ searches' = [searches EXCEPT ![s] = Done]
                 /\ SearchFailed
            ELSE IF AllSettled(resp)
                   THEN /\ searches' = [searches EXCEPT ![s] = Done]
                        /\ RenderResults(s, resp, Merge(resp, searches[s].limit))
                   ELSE /\ searches' = [searches EXCEPT ![s].resp = resp]
                        /\ UNCHANGED searchUIVars
    /\ UNCHANGED <<netVars, searchFormVars, searchLoads>>
    /\ UNCHANGED <<addVars, corpus, popupVars, tabVars, sessionVars, pageSelection, contextVars>>

\* A fan-out that renders what it has each time a source settles.
SourceSettledStreaming(s, i, outcome, sc) ==
    /\ searches[s].st = "fan"
    /\ i \in 1..Len(searches[s].resp)
    /\ searches[s].resp[i].st = "pending"
    /\ LET r == IF outcome = "ok" THEN Ok(Rows(sc, searches[s].dbs[i])) ELSE Failed
           resp == [searches[s].resp EXCEPT ![i] = r]
       IN /\ searches' = [searches EXCEPT ![s] =
                             IF AllSettled(resp) THEN Done ELSE [@ EXCEPT !.resp = resp]]
          /\ RenderResults(s, resp, Merge(resp, searches[s].limit))
    /\ UNCHANGED <<netVars, searchFormVars, searchLoads>>
    /\ UNCHANGED <<addVars, corpus, popupVars, tabVars, sessionVars, pageSelection, contextVars>>

\* The POST /search for source i of ALL-scope search `s` settles
\* (content.js:514-527): its rows tagged with the source, or [] on any
\* failure.  When it is the last one, the merge and the render follow in the
\* same turn (538-543).
SourceSettled(s, i, outcome, sc) ==
    /\ searches[s].st = "fan"
    /\ i \in 1..Len(searches[s].resp)
    /\ searches[s].resp[i].st = "pending"
    /\ LET r == IF outcome = "ok" THEN Ok(Rows(sc, searches[s].dbs[i])) ELSE Failed
           resp == [searches[s].resp EXCEPT ![i] = r]
       IN IF AllSettled(resp)
            THEN /\ searches' = [searches EXCEPT ![s] = Done]
                 /\ RenderResults(s, resp, Merge(resp, searches[s].limit))
            ELSE /\ searches' = [searches EXCEPT ![s].resp = resp]
                 /\ UNCHANGED searchUIVars
    /\ UNCHANGED <<netVars, searchFormVars, searchLoads>>
    /\ UNCHANGED <<addVars, corpus, popupVars, tabVars, sessionVars, pageSelection, contextVars>>

\* A single-source search whose response is dropped when another search is
\* still in flight.
SingleSettledDropOverlapped(s, outcome, sc) ==
    /\ searches[s].st = "single"
    /\ searches' = [searches EXCEPT ![s] = Done]
    /\ IF \E t \in SearchIds \ {s} : searches[t].st \in {"list", "fan", "single"}
         THEN UNCHANGED searchUIVars
         ELSE IF outcome = "net"
                THEN SearchFailed
                ELSE LET resp == <<IF outcome = "ok" THEN Ok(Rows(sc, NoDb)) ELSE Failed>>
                     IN RenderResults(s, resp, Merge(resp, searches[s].limit))
    /\ UNCHANGED <<netVars, searchFormVars, searchLoads>>
    /\ UNCHANGED <<addVars, corpus, popupVars, tabVars, sessionVars, pageSelection, contextVars>>

\* The POST /search of single-source search `s` settles (content.js:530-548):
\* its rows, [] on a non-success status, the catch branch on an exception.
SingleSettled(s, outcome, sc) ==
    /\ searches[s].st = "single"
    /\ LET r == IF outcome = "ok" THEN Ok(Rows(sc, NoDb)) ELSE Failed
           resp == <<r>>
       IN IF outcome = "net"
            THEN /\ searches' = [searches EXCEPT ![s] = Done]
                 /\ SearchFailed
            ELSE /\ searches' = [searches EXCEPT ![s] = Done]
                 /\ RenderResults(s, resp, Merge(resp, searches[s].limit))
    /\ UNCHANGED <<netVars, searchFormVars, searchLoads>>
    /\ UNCHANGED <<addVars, corpus, popupVars, tabVars, sessionVars, pageSelection, contextVars>>

\* A checkbox listener that updates the Set and not the count and the button.
ToggleResultNoUI(i) ==
    /\ isPanelOpen
    /\ resultsView = "rows"
    /\ i \in 0..(Len(displayed) - 1)
    /\ LET nowChecked == i \notin checkedBoxes
       IN /\ checkedBoxes' = IF nowChecked THEN checkedBoxes \cup {i} ELSE checkedBoxes \ {i}
          /\ searchSelectedResults' = IF nowChecked THEN SetAdd(searchSelectedResults, i)
                                                    ELSE SetDelete(searchSelectedResults, i)
    /\ UNCHANGED <<countText, createDisabled>>
    /\ UNCHANGED <<resultsView, displayed, displayedBy, lastDone, actionsVisible, summary,
                   completedClosed, netVars, searchFormVars, searchLoads, searches>>
    /\ UNCHANGED <<addVars, corpus, popupVars, tabVars, sessionVars, pageSelection, contextVars>>

\* change listener of a result checkbox (content.js:584-590)
ToggleResult(i) ==
    /\ isPanelOpen
    /\ resultsView = "rows"
    /\ i \in 0..(Len(displayed) - 1)
    /\ LET nowChecked == i \notin checkedBoxes
           sel == IF nowChecked THEN SetAdd(searchSelectedResults, i)
                                ELSE SetDelete(searchSelectedResults, i)
       IN /\ checkedBoxes' = IF nowChecked THEN checkedBoxes \cup {i} ELSE checkedBoxes \ {i}
          /\ searchSelectedResults' = sel
          /\ updateSearchSelectionUI(sel)
    /\ UNCHANGED <<resultsView, displayed, displayedBy, lastDone, actionsVisible, summary,
                   completedClosed, netVars, searchFormVars, searchLoads, searches>>
    /\ UNCHANGED <<addVars, corpus, popupVars, tabVars, sessionVars, pageSelection, contextVars>>

\* Select All (content.js:615-619): every checkbox now in the results area
SelectAll ==
    /\ isPanelOpen
    /\ actionsVisible
    /\ checkedBoxes' = 0..(Len(displayed) - 1)
    /\ searchSelectedResults' = [k \in 1..Len(displayed) |-> k - 1]
    /\ updateSearchSelectionUI([k \in 1..Len(displayed) |-> k - 1])
    /\ UNCHANGED <<resultsView, displayed, displayedBy, lastDone, actionsVisible, summary,
                   completedClosed, netVars, searchFormVars, searchLoads, searches>>
    /\ UNCHANGED <<addVars, corpus, popupVars, tabVars, sessionVars, pageSelection, contextVars>>

\* Clear (content.js:620-624)
ClearSelection ==
    /\ isPanelOpen
    /\ actionsVisible
    /\ checkedBoxes' = {}
    /\ searchSelectedResults' = <<>>
    /\ updateSearchSelectionUI(<<>>)
    /\ UNCHANGED <<resultsView, displayed, displayedBy, lastDone, actionsVisible, summary,
                   completedClosed, netVars, searchFormVars, searchLoads, searches>>
    /\ UNCHANGED <<addVars, corpus, popupVars, tabVars, sessionVars, pageSelection, contextVars>>

\* The entries the create-context handler builds (content.js:629-637): the
\* members of the Set in insertion order, those without a rendered item
\* skipped, numbered from 1; an entry carries the rendered item it was read
\* from.
RECURSIVE ContextEntries(_, _)
ContextEntries(sel, rows) ==
    IF sel = <<>> THEN <<>>
    ELSE LET before == ContextEntries(SubSeq(sel, 1, Len(sel) - 1), rows)
             i == sel[Len(sel)]
         IN IF i + 1 \in 1..Len(rows)
              THEN Append(before, [ordinal |-> Len(before) + 1, index |-> i,
                                   item |-> rows[i + 1]])
              ELSE before

\* Create Context Text (content.js:625-643), with the showPanelNotification
\* it ends with (895-923).  A disabled button fires no click.
CreateContext ==
    /\ isPanelOpen
    /\ actionsVisible
    /\ ~createDisabled
    /\ contextText' = ContextEntries(searchSelectedResults, displayed)
    /\ contextVisible' = TRUE
    /\ dimmed' = FALSE
    /\ saveDisabled' = (selectedText = "")
    /\ saveLabel' = IdleLabel
    /\ notifVisible' = FALSE
    /\ timers' = timers \cup {"notifShow"}
    /\ UNCHANGED <<isPanelOpen, selectedText, selectedDatabase, previewVisible, previewText,
                   dbOptions, dbValue, statusVisible, saves, closedCompletion, panelLoads>>
    /\ UNCHANGED <<searchUIVars, searchFormVars, netVars, searchLoads, searches, corpus, popupVars,
                   tabVars, sessionVars, pageSelection>>

\* clearSearchResults (content.js:658-685): the Clear Results button
clearSearchResults ==
    /\ isPanelOpen
    /\ ShowMessage("blank")
    /\ summary' = -1
    /\ actionsVisible' = FALSE
    /\ searchSelectedResults' = <<>>
    /\ updateSearchSelectionUI(<<>>)
    /\ UNCHANGED <<completedClosed, netVars, searchFormVars, searchLoads, searches>>
    /\ UNCHANGED <<addVars, corpus, popupVars, tabVars, sessionVars, pageSelection, contextVars>>

\* The user picks a search scope among the options of the select.
SearchDbChange(v) ==
    /\ isPanelOpen
    /\ v \in searchOptions
    /\ v # searchDbValue
    /\ searchDbValue' = v
    /\ UNCHANGED <<searchOptions, limitValue, minScoreValue, searchLoads, searches,
                   searchUIVars, netVars>>
    /\ UNCHANGED <<addVars, corpus, popupVars, tabVars, sessionVars, pageSelection, contextVars>>

\* change listener of the limit select (content.js:370-373)
LimitChange(v) ==
    /\ isPanelOpen
    /\ v \in LimitOptions
    /\ v # limitValue
    /\ limitValue' = v
    /\ UNCHANGED <<searchOptions, searchDbValue, minScoreValue, searchLoads, searches,
                   searchUIVars, netVars>>
    /\ UNCHANGED <<addVars, corpus, popupVars, tabVars, sessionVars, pageSelection, contextVars>>

\* change listener of the min-score select (content.js:374-377)
MinScoreChange(v) ==
    /\ isPanelOpen
    /\ v \in MinScoreOptions
    /\ v # minScoreValue
    /\ minScoreValue' = v
    /\ UNCHANGED <<searchOptions, searchDbValue, limitValue, searchLoads, searches,
                   searchUIVars, netVars>>
    /\ UNCHANGED <<addVars, corpus, popupVars, tabVars, sessionVars, pageSelection, contextVars>>

\* loadDatabasesForSearch settles (content.js:461-476)
SearchLoadSettle(ok, list) ==
    /\ searchLoads > 0
    /\ searchLoads' = searchLoads - 1
    /\ searchOptions' = IF ok THEN {NoDb, ALL} \cup Names(list) ELSE {NoDb}
    /\ searchDbValue' = IF ok THEN SelectValue({NoDb, ALL} \cup Names(list), selectedDatabase)
                              ELSE NoDb
    /\ UNCHANGED <<limitValue, minScoreValue, searches, searchUIVars, netVars>>
    /\ UNCHANGED <<addVars, corpus, popupVars, tabVars, sessionVars, pageSelection, contextVars>>

\* =================================================================== popup
PopupNames == {"X", "Y"}
OpIds == 1..MaxOps
NoOp == [kind |-> "none", name |-> "", st |-> "none"]
OpDone == [NoOp EXCEPT !.kind = "done"]
FreeOp == {o \in OpIds : popupOps[o].kind = "none"}
NextOp == CHOOSE o \in FreeOp : \A x \in FreeOp : o <= x

\* createDatabase up to its POST (background.js:414-432), from the click on
\* the button (294; a disabled button fires no click) or Enter in the name
\* input (296-298).
createDatabase(name, viaEnter) ==
    /\ viaEnter \/ createBtn = "idle"
    /\ (name # "" /\ name \notin databases) => FreeOp # {}
    /\ IF name = ""
         THEN /\ popupNotice' = "enterName"
              /\ UNCHANGED <<createBtn, popupOps, createReqs>>
         ELSE IF name \in databases
                THEN /\ popupNotice' = "exists"
                     /\ UNCHANGED <<createBtn, popupOps, createReqs>>
                ELSE /\ createBtn' = "creating"
                     /\ popupOps' = [popupOps EXCEPT ![NextOp] =
                                        [kind |-> "create", name |-> name, st |-> "req"]]
                     /\ createReqs' = createReqs + 1
                     /\ UNCHANGED popupNotice
    /\ UNCHANGED <<databases, listShown, deleteReqs, declined, created, backendDbs>>
    /\ UNCHANGED panelVars

\* A create whose failure path only notifies: the button is restored after a
\* success alone.
CreateSettledNoFinally(o, outcome) ==
    /\ popupOps[o].kind = "create" /\ popupOps[o].st = "req"
    /\ IF outcome = "ok"
         THEN /\ popupNotice' = "created"
              /\ popupOps' = [popupOps EXCEPT ![o].st = "reload"]
              /\ backendDbs' = backendDbs \cup {popupOps[o].name}
         ELSE /\ popupNotice' = "createError"
              /\ popupOps' = [popupOps EXCEPT ![o] = OpDone]
              /\ UNCHANGED backendDbs
    /\ UNCHANGED <<databases, listShown, createBtn, createReqs, deleteReqs, declined, created>>
    /\ UNCHANGED panelVars

\* The POST /databases of invocation `o` settles (background.js:434-440):
\* success notifies and starts the reload, anything else ends in the catch
\* and the finally (451-456).
CreateSettled(o, outcome) ==
    /\ popupOps[o].kind = "create" /\ popupOps[o].st = "req"
    /\ IF outcome = "ok"
         THEN /\ popupNotice' = "created"
              /\ popupOps' = [popupOps EXCEPT ![o].st = "reload"]
              /\ backendDbs' = backendDbs \cup {popupOps[o].name}
              /\ UNCHANGED createBtn
         ELSE /\ popupNotice' = "createError"
              /\ popupOps' = [popupOps EXCEPT ![o] = OpDone]
              /\ createBtn' = "idle"
              /\ UNCHANGED backendDbs
    /\ UNCHANGED <<databases, listShown, createReqs, deleteReqs, declined, created>>
    /\ UNCHANGED panelVars

\* A deleteDatabase that does not wait for the answer to confirm().
deleteDatabaseNoConfirm(name, confirmed) ==
    /\ name \in listShown
    /\ FreeOp # {}
    /\ popupOps' = [popupOps EXCEPT ![NextOp] =
                       [kind |-> "delete", name |-> name, st |-> "req"]]
    /\ deleteReqs' = deleteReqs + 1
    /\ declined' = IF confirmed \/ declined >= MaxDeclined THEN declined ELSE declined + 1
    /\ UNCHANGED <<databases, listShown, createBtn, createReqs, popupNotice, created,
                   backendDbs>>
    /\ UNCHANGED panelVars

\* deleteDatabase up to its DELETE (background.js:462-470), from a Delete
\* button of the rendered list (400-408), with the user's answer to confirm().
deleteDatabase(name, confirmed) ==
    /\ name \in listShown
    /\ IF confirmed
         THEN /\ FreeOp # {}
              /\ popupOps' = [popupOps EXCEPT ![NextOp] =
                                 [kind |-> "delete", name |-> name, st |-> "req"]]
              /\ deleteReqs' = deleteReqs + 1
              /\ UNCHANGED declined
         ELSE /\ declined < MaxDeclined
              /\ declined' = declined + 1
              /\ UNCHANGED <<popupOps, deleteReqs>>
    /\ UNCHANGED <<databases, listShown, createBtn, createReqs, popupNotice, created,
                   backendDbs>>
    /\ UNCHANGED panelVars

\* The DELETE of invocation `o` settles (background.js:472-477, 487-490).
DeleteSettled(o, outcome) ==
    /\ popupOps[o].kind = "delete" /\ popupOps[o].st = "req"
    /\ IF outcome = "ok"
         THEN /\ popupNotice' = "deleted"
              /\ popupOps' = [popupOps EXCEPT ![o].st = "reload"]
              /\ backendDbs' = backendDbs \ {popupOps[o].name}
              /\ created' = created \ {popupOps[o].name}
         ELSE /\ popupNotice' = "deleteError"
              /\ popupOps' = [popupOps EXCEPT ![o] = OpDone]
              /\ UNCHANGED <<backendDbs, created>>
    /\ UNCHANGED <<databases, listShown, createBtn, createReqs, deleteReqs, declined>>
    /\ UNCHANGED panelVars

\* The loadDatabases awaited by invocation `o` settles (background.js:347-358):
\* the list replaces the cache and is rendered, or the empty state is
\* rendered over an unchanged cache; the invocation then runs to its end
\* (440-456, 477-485).
ReloadSettled(o, ok) ==
    /\ popupOps[o].st = "reload"
    /\ databases' = IF ok THEN backendDbs ELSE databases
    /\ listShown' = IF ok THEN backendDbs ELSE {}
    /\ popupOps' = [popupOps EXCEPT ![o] = OpDone]
    /\ createBtn' = IF popupOps[o].kind = "create" THEN "idle" ELSE createBtn
    /\ created' = IF popupOps[o].kind = "create" THEN created \cup {popupOps[o].name}
                                                 ELSE created
    /\ UNCHANGED <<createReqs, deleteReqs, popupNotice, declined, backendDbs>>
    /\ UNCHANGED panelVars

\* No popup is open.
PopupClosed ==
    /\ databases = {}
    /\ listShown = {}
    /\ createBtn = "idle"
    /\ popupOps = [o \in OpIds |-> NoOp]
    /\ createReqs = 0
    /\ deleteReqs = 0
    /\ popupNotice = "none"
    /\ declined = 0
    /\ created = {}
    /\ backendDbs = {}

\* ============================================================ specification
\* The state once the content script has run (content.js:17-21): the panel is
\* created closed and setupPanelEventListeners (365) has one
\* loadDatabasesForSearch in flight.
PanelInit ==
    /\ isPanelOpen = FALSE
    /\ selectedText = ""
    /\ selectedDatabase = NoDb
    /\ previewVisible = FALSE
    /\ previewText = ""
    /\ dbOptions = {NoDb}
    /\ dbValue = NoDb
    /\ dimmed = FALSE
    /\ saveDisabled = TRUE
    /\ saveLabel = IdleLabel
    /\ notifVisible = FALSE
    /\ statusVisible = FALSE
    /\ timers = {}
    /\ saves = [s \in SaveIds |-> NoSave]
    /\ closedCompletion = FALSE
    /\ panelLoads = 0
    /\ searchOptions = {NoDb}
    /\ searchDbValue = NoDb
    /\ limitValue = DefaultLimit
    /\ minScoreValue = 30
    /\ searchLoads = 1
    /\ searches = [s \in SearchIds |-> NoSearch]
    /\ resultsView = "blank"
    /\ displayed = <<>>
    /\ displayedBy = 0
    /\ lastDone = NoSearch
    /\ checkedBoxes = {}
    /\ searchSelectedResults = <<>>
    /\ actionsVisible = FALSE
    /\ countText = 0
    /\ createDisabled = TRUE
    /\ summary = -1
    /\ listReqs = 0
    /\ searchReqs = 0
    /\ completedClosed = FALSE
    /\ contextText = <<>>
    /\ contextVisible = FALSE
    /\ activePanelTab = "add"
    /\ visibleTab = "add"
    /\ tabWrite = "add"
    /\ settings = "pending"
    /\ minimized = FALSE
    /\ serverUrl = DefaultUrl
    /\ inbox = <<>>
    /\ pageSelection = ""

\* A first run: nothing is stored yet.
Init ==
    /\ PanelInit
    /\ corpus = [d \in Names(SourceNames) |-> <<>>]
    /\ storedTab = "none"
    /\ storedDatabase = NoDb
    /\ storedUrl = "none"
    /\ PopupClosed

Outcomes == {"ok", "http", "net"}
LongTexts == {t \in SelectionTexts : TextLen(t) > PreviewMin}
Queries == {"", "q"}

\* Host-page and panel-frame events.
Lifecycle ==
    \/ \E t \in LongTexts, typing \in BOOLEAN : SelectionCaptured(t, typing)
    \/ SelectionCleared
    \/ \E t \in SelectionTexts : SelectionIgnored(t)
    \/ hideSidePanel

\* The Add tab: database select, save, notices.
AddTab ==
    \/ \E v \in {NoDb} \cup Names(SourceNames) : DbSelectChange(v)
    \/ \E ok \in BOOLEAN, list \in BackendLists : PanelLoadSettle(ok, list)
    \/ SaveRequested
    \/ \E s \in SaveIds, o \in Outcomes : SaveSettled(s, o)
    \/ \E t \in timers : TimerFired(t)

\* The Search tab's form and the selection over the results.
SearchForm ==
    \/ \E v \in {NoDb, ALL} \cup Names(SourceNames) : SearchDbChange(v)
    \/ \E ok \in BOOLEAN, list \in BackendLists : SearchLoadSettle(ok, list)
    \/ \E q \in Queries : performPanelSearch(q)
    \/ \E i \in 0..20 : ToggleResult(i)
    \/ SelectAll
    \/ ClearSelection
    \/ clearSearchResults

\* Settlement of the requests of a search, with the score sequences of the
\* responses drawn from `seqs` and the source lists from `lists`.
SearchSettle(seqs, singleSeqs, lists) ==
    \/ \E s \in SearchIds :
          \/ \E list \in lists : ListSettled(s, "ok", list)
          \/ \E o \in {"http", "net"} : ListSettled(s, o, <<>>)
    \/ \E s \in SearchIds, i \in 1..Len(SourceNames) :
          \/ \E sc \in seqs : SourceSettled(s, i, "ok", sc)
          \/ \E o \in {"http", "net"} : SourceSettled(s, i, o, <<>>)
    \/ \E s \in SearchIds :
          \/ \E sc \in singleSeqs : SingleSettled(s, "ok", sc)
          \/ \E o \in {"http", "net"} : SingleSettled(s, o, <<>>)

Next ==
    \/ Lifecycle
    \/ AddTab
    \/ SearchForm
    \/ SearchSettle(ScoreSeqs(MaxRows), ScoreSeqs(MaxRows), BackendLists)
    \/ \E d \in {NoDb, "A"} : SelectedDatabaseChanged(d)
    \/ \E v \in LimitOptions : LimitChange(v)
    \/ \E v \in MinScoreOptions : MinScoreChange(v)
    \/ SettingsRead
    \/ \E ok \in BOOLEAN : SettingsLoaded(ok)
    \/ TabWriteApplied
    \/ CreateContext
    \/ \E u \in Urls : ServerUrlWritten(u)
    \/ ServerUrlNotified
    \/ togglePanelMinimized
    \/ \E tab \in {"add", "search"} : switchPanelTab(tab)

Spec == Init /\ [][Next]_vars

\* The panel frame and the Add tab: one selection text, saves, notices and
\* timers interleaved with open and close.
SaveNext ==
    \/ \E typing \in BOOLEAN : SelectionCaptured("text1", typing)
    \/ SelectionCleared
    \/ hideSidePanel
    \/ AddTab

SaveSpec == Init /\ [][SaveNext]_vars

\* Every add-text request settles, and every timer fires.
SaveLive ==
    /\ SaveSpec
    /\ \A s \in SaveIds : WF_vars(\E o \in Outcomes : SaveSettled(s, o))

\* Open and close with saves and searches in flight (no timer fires yet).
CloseNext ==
    \/ \E typing \in BOOLEAN : SelectionCaptured("text1", typing)
    \/ hideSidePanel
    \/ \E v \in {NoDb, "A"} : DbSelectChange(v)
    \/ PanelLoadSettle(TRUE, DbList(1))
    \/ SaveRequested
    \/ \E s \in SaveIds, o \in Outcomes : SaveSettled(s, o)
    \/ \E v \in {NoDb, ALL, "A"} : SearchDbChange(v)
    \/ SearchLoadSettle(TRUE, DbList(1))
    \/ performPanelSearch("q")
    \/ SearchSettle(DescSeqs(1), DescSeqs(1), {DbList(1)})

CloseSpec == Init /\ [][CloseNext]_vars

\* The Search tab with open and close: overlapping searches, their
\* settlements in any order, and the selection over the rendered rows.
SearchNext ==
    \/ \E typing \in BOOLEAN : SelectionCaptured("text1", typing)
    \/ hideSidePanel
    \/ \E v \in {NoDb, ALL} \cup Names(SourceNames) : SearchDbChange(v)
    \/ \E ok \in BOOLEAN : SearchLoadSettle(ok, DbList(2))
    \/ \E q \in Queries : performPanelSearch(q)
    \/ \E i \in 0..20 : ToggleResult(i)
    \/ SelectAll
    \/ ClearSelection
    \/ clearSearchResults
    \/ SearchSettle(DescSeqs(MaxRows), DescSeqs(MaxRows), {DbList(2)})

SearchSpec == Init /\ [][SearchNext]_vars

\* Single-source searches, possibly overlapping, the selection over the
\* rendered rows and the context composed from it.
ComposeNext ==
    \/ SelectionCaptured("text1", TRUE)
    \/ SearchLoadSettle(TRUE, DbList(1))
    \/ SearchDbChange("A")
    \/ performPanelSearch("q")
    \/ \E s \in SearchIds, sc \in DescSeqs(MaxRows) : SingleSettled(s, "ok", sc)
    \/ \E i \in 0..(MaxRows - 1) : ToggleResult(i)
    \/ SelectAll
    \/ ClearSelection
    \/ CreateContext

ComposeSpec == Init /\ [][ComposeNext]_vars

\* A later run: the settings store holds whatever earlier runs left in it.
\* loadSettings has issued its read and the panel setup its write of the
\* initial tab (content.js:18-20, 340, 445); neither has completed, and the
\* order in which they do is left open.
TabInit ==
    /\ PanelInit
    /\ corpus = [d \in Names(SourceNames) |-> <<>>]
    /\ storedTab \in {"none", "add", "search"}
    /\ storedDatabase \in {NoDb, "A"}
    /\ storedUrl = "none"
    /\ PopupClosed

\* Start-up against open, capture and close.
TabNext ==
    \/ SettingsRead
    \/ \E ok \in BOOLEAN : SettingsLoaded(ok)
    \/ TabWriteApplied
    \/ \E t \in LongTexts, typing \in BOOLEAN : SelectionCaptured(t, typing)
    \/ SelectionCleared
    \/ hideSidePanel
    \/ PanelLoadSettle(TRUE, DbList(1))
    \/ SearchLoadSettle(TRUE, DbList(1))

TabSpec == TabInit /\ [][TabNext]_vars

\* The panel frame: selection events, open and close, minimize and tab
\* switches, over a save and a rendered search.
FrameNext ==
    \/ \E typing \in BOOLEAN : SelectionCaptured("text1", typing)
    \/ SelectionCleared
    \/ SelectionIgnored("abc")
    \/ hideSidePanel
    \/ togglePanelMinimized
    \/ \E tab \in {"add", "search"} : switchPanelTab(tab)
    \/ TabWriteApplied
    \/ PanelLoadSettle(TRUE, DbList(1))
    \/ SearchLoadSettle(TRUE, DbList(1))
    \/ DbSelectChange("A")
    \/ SaveRequested
    \/ \E s \in SaveIds : SaveSettled(s, "ok")
    \/ SearchDbChange("A")
    \/ (FreeSearch = SearchIds /\ performPanelSearch("q"))
    \/ \E s \in SearchIds : SingleSettled(s, "ok", <<80>>)
    \/ ToggleResult(0)

FrameSpec == Init /\ [][FrameNext]_vars

\* The requests of search `s`, any of which may settle with any outcome.
SettleOf(s) ==
    \/ \E list \in {DbList(0), DbList(2)} : ListSettled(s, "ok", list)
    \/ \E o \in {"http", "net"} : ListSettled(s, o, <<>>)
    \/ \E i \in 1..Len(SourceNames) :
          \/ \E sc \in DescSeqs(1) : SourceSettled(s, i, "ok", sc)
          \/ \E o \in {"http", "net"} : SourceSettled(s, i, o, <<>>)
    \/ \E sc \in DescSeqs(1) : SingleSettled(s, "ok", sc)
    \/ \E o \in {"http", "net"} : SingleSettled(s, o, <<>>)

\* Searches of either scope, possibly overlapping, with Clear Results in
\* between.
SettleNext ==
    \/ SelectionCaptured("text1", TRUE)
    \/ SearchLoadSettle(TRUE, DbList(2))
    \/ \E v \in {ALL, "A"} : SearchDbChange(v)
    \/ performPanelSearch("q")
    \/ clearSearchResults
    \/ \E s \in SearchIds : SettleOf(s)

SettleSpec == Init /\ [][SettleNext]_vars

\* Every request settles (no request is left without an answer).
SettleLive == SettleSpec /\ \A s \in SearchIds : WF_vars(SettleOf(s))

\* The popup once its DOMContentLoaded handler has run (background.js:283-290):
\* the first loadDatabases has settled, with the backend's list or with the
\* cache left empty, and the listeners are attached.
PopupInit ==
    /\ PanelInit
    /\ corpus = [d \in Names(SourceNames) |-> <<>>]
    /\ storedTab = "none"
    /\ storedDatabase = NoDb
    /\ storedUrl = "none"
    /\ backendDbs \in SUBSET PopupNames
    /\ databases \in {backendDbs, {}}
    /\ listShown = databases
    /\ createBtn = "idle"
    /\ popupOps = [o \in OpIds |-> NoOp]
    /\ createReqs = 0
    /\ deleteReqs = 0
    /\ popupNotice = "none"
    /\ declined = 0
    /\ created = {}

PopupNext ==
    \/ \E name \in {""} \cup PopupNames, viaEnter \in BOOLEAN : createDatabase(name, viaEnter)
    \/ \E o \in OpIds, outcome \in {"ok", "http", "net"} : CreateSettled(o, outcome)
    \/ \E name \in PopupNames, confirmed \in BOOLEAN : deleteDatabase(name, confirmed)
    \/ \E o \in OpIds, outcome \in {"ok", "http", "net"} : DeleteSettled(o, outcome)
    \/ \E o \in OpIds, ok \in BOOLEAN : ReloadSettled(o, ok)

PopupSpec == PopupInit /\ [][PopupNext]_vars

\* Every request of the popup settles.
PopupLive ==
    /\ PopupSpec
    /\ \A o \in OpIds :
          /\ WF_vars(\E outcome \in {"ok", "http", "net"} : CreateSettled(o, outcome))
          /\ WF_vars(\E ok \in BOOLEAN : ReloadSettled(o, ok))

\* The form is set, then one search runs.
FormOpen == FreeSearch = SearchIds

\* Saves of two different selections, with the timers a save schedules.
CleanupNext ==
    \/ \E t \in {"text1", "text2"} : SelectionCaptured(t, TRUE)
    \/ SelectionCleared
    \/ PanelLoadSettle(TRUE, DbList(1))
    \/ DbSelectChange("A")
    \/ SaveRequested
    \/ \E s \in SaveIds, o \in {"ok", "http"} : SaveSettled(s, o)
    \/ \E t \in timers : TimerFired(t)

CleanupSpec == Init /\ [][CleanupNext]_vars

\* The backend address: the options page stores addresses while the content
\* script loads its settings, receives change notifications and starts panel
\* operations (source-list loads, saves, searches).
UrlNext ==
    \/ SettingsRead
    \/ \E ok \in BOOLEAN : SettingsLoaded(ok)
    \/ \E u \in Urls : ServerUrlWritten(u)
    \/ ServerUrlNotified
    \/ SelectionCaptured("text1", TRUE)
    \/ PanelLoadSettle(TRUE, DbList(1))
    \/ DbSelectChange("A")
    \/ SaveRequested
    \/ \E s \in SaveIds : SaveSettled(s, "ok")
    \/ \E tab \in {"add", "search"} : switchPanelTab(tab)
    \/ TabWriteApplied
    \/ SearchLoadSettle(TRUE, DbList(1))
    \/ \E v \in {ALL, "A"} : FormOpen /\ SearchDbChange(v)
    \/ (FormOpen /\ performPanelSearch("q"))
    \/ \E s \in SearchIds : ListSettled(s, "ok", DbList(1))
    \/ \E s \in SearchIds : SourceSettled(s, 1, "ok", <<80>>)
    \/ \E s \in SearchIds : SingleSettled(s, "ok", <<80>>)

UrlSpec == Init /\ [][UrlNext]_vars

\* One search over up to three sources, with every response the backend may
\* give: the merge, its order and its truncation.
MergeNext ==
    \/ SelectionCaptured("text1", TRUE)
    \/ SearchLoadSettle(TRUE, DbList(1))
    \/ \E v \in {ALL, "A"} : FormOpen /\ SearchDbChange(v)
    \/ \E v \in LimitOptions : FormOpen /\ LimitChange(v)
    \/ (FormOpen /\ performPanelSearch("q"))
    \/ SearchSettle(ScoreSeqs(MaxMergeRows), ScoreSeqs(MaxSingleRows), MergeLists)

MergeSpec == Init /\ [][MergeNext]_vars

\* What a source may hold: h rows of the high score, then l of the low one.
HiLo(h, l) == [i \in 1..(h + l) |-> IF i <= h THEN 80 ELSE 40]
Held == UNION {{HiLo(h, l) : l \in 0..(MaxCorpus - h)} : h \in 0..MaxCorpus}

\* Source i of ALL-scope search `s` answers from what the backend holds.
BackendSettled(s, i) ==
    /\ searches[s].st = "fan"
    /\ i \in 1..Len(searches[s].dbs)
    /\ SourceSettled(s, i, "ok", BackendSearch(corpus[searches[s].dbs[i]],
                                               searches[s].perDb, searches[s].minScore))

\* One ALL-scope search over two sources that answer from a fixed corpus.
QuotaInit ==
    \E a, b \in Held :
        /\ PanelInit
        /\ corpus = [d \in Names(SourceNames) |-> CASE d = "A" -> a [] d = "B" -> b [] OTHER -> <<>>]
        /\ storedTab = "none"
        /\ storedDatabase = NoDb
    /\ storedUrl = "none"
    /\ PopupClosed

QuotaNext ==
    \/ SelectionCaptured("text1", TRUE)
    \/ SearchLoadSettle(TRUE, DbList(2))
    \/ (FormOpen /\ SearchDbChange(ALL))
    \/ \E v \in LimitOptions : FormOpen /\ LimitChange(v)
    \/ \E v \in MinScoreOptions : FormOpen /\ MinScoreChange(v)
    \/ (FormOpen /\ performPanelSearch("q"))
    \/ \E s \in SearchIds : ListSettled(s, "ok", DbList(2))
    \/ \E s \in SearchIds, i \in 1..2 : BackendSettled(s, i)

QuotaSpec == QuotaInit /\ [][QuotaNext]_vars

\* ================================================================== claims
Idle == ~dimmed /\ saveLabel = IdleLabel
InFlight(s) == searches[s].st \in {"list", "fan", "single"}

\* C1: every save that set the busy state returns the panel to the idle state
\* (dimming removed, label restored) when its add-text request settles, on
\* the success path, on a non-success status and on a network exception.
C1_SaveReturnsToIdle ==
    /\ \A s \in SaveIds : (saves[s].st = "flight") ~> (saves[s].st \in Outcomes /\ Idle)
    /\ [][\A s \in SaveIds : (saves[s].st = "flight" /\ saves'[s].st # "flight") => Idle']_vars

C1_Witness ==
    /\ \E s \in SaveIds : saves[s].st = "net"
    /\ \E s \in SaveIds : saves[s].st = "http"
    /\ Idle

C3_NoResurrection ==
    closedCompletion => (~isPanelOpen /\ Idle /\ ~notifVisible /\ ~statusVisible)

\* C4: every selected index is an index of a rendered result row.
C4_SelectionInRange ==
    \A k \in 1..Len(searchSelectedResults) :
        0 <= searchSelectedResults[k] /\ searchSelectedResults[k] < Len(displayed)

\* C5: in the step in which a search renders its result set, the selection
\* set is empty afterwards.
C5_RenderClearsSelection ==
    [][(displayedBy' # 0 /\ displayedBy' # displayedBy) => searchSelectedResults' = <<>>]_vars

\* C6: the rendered rows have non-increasing scores and are at most as many
\* as the limit of the search that rendered them.
C6_SortedWithinLimit ==
    resultsView = "rows" =>
        /\ displayedBy # 0
        /\ Len(displayed) <= lastDone.limit
        /\ \A k \in 1..(Len(displayed) - 1) : displayed[k].score >= displayed[k + 1].score

Unsorted(rows) == \E k \in 1..(Len(rows) - 1) : rows[k].score < rows[k + 1].score

C6_Witness ==
    /\ resultsView = "rows"
    /\ lastDone.scope = "A"
    /\ Len(lastDone.resp[1].rows) > lastDone.limit
    /\ Unsorted(lastDone.resp[1].rows)

\* The rows of the successful sources of a completed search.
OkRows(rec) ==
    UNION {{rec.resp[i].rows[k] : k \in 1..Len(rec.resp[i].rows)} :
              i \in {j \in 1..Len(rec.resp) : rec.resp[j].st = "ok"}}
RowSet(rows) == {rows[k] : k \in 1..Len(rows)}

\* C7: when the last request of an ALL-scope search settles, whatever
\* subset of its sources failed, the search renders: the responses already in
\* are the ones merged, every rendered row is a row of a successful source,
\* and as many rows are rendered as the successful sources returned, up to the
\* limit.
C7_FailuresIsolated ==
    [][\A s \in SearchIds :
          (searches[s].st = "fan" /\ searches'[s].st = "done") =>
              /\ displayedBy' = s
              /\ resultsView' \in {"rows", "noResults"}
              /\ \A i \in 1..Len(searches[s].resp) :
                    searches[s].resp[i].st # "pending" =>
                        lastDone'.resp[i] = searches[s].resp[i]
              /\ RowSet(displayed') \subseteq OkRows(lastDone')
              /\ Cardinality(RowSet(displayed')) = Len(displayed')
              /\ Len(displayed') = Min(searches[s].limit, Cardinality(OkRows(lastDone')))
              /\ \A i \in 1..Len(lastDone'.resp) :
                    lastDone'.resp[i].st = "failed" =>
                        \A k \in 1..Len(displayed') : displayed'[k].db # lastDone'.dbs[i]]_vars

C7_Witness ==
    /\ displayedBy # 0
    /\ lastDone.scope = ALL
    /\ Len(lastDone.resp) = 3
    /\ lastDone.resp[2].st = "failed"
    /\ Len(lastDone.resp[1].rows) = 3
    /\ Len(lastDone.resp[3].rows) = 3
    /\ lastDone.limit = 5
    /\ Len(displayed) = 5

\* Position of a source in the enumeration of a search.
SrcIndex(rec, db) == CHOOSE i \in 1..Len(rec.dbs) : rec.dbs[i] = db
\* r1 comes before r2: a higher score, or the same score and seen first.
Before(rec, r1, r2) ==
    \/ r1.score > r2.score
    \/ /\ r1.score = r2.score
       /\ \/ SrcIndex(rec, r1.db) < SrcIndex(rec, r2.db)
          \/ SrcIndex(rec, r1.db) = SrcIndex(rec, r2.db) /\ r1.pos < r2.pos

\* C8: the rendered rows of an ALL-scope search are the first `limit` rows of
\* the partial results ordered by descending score, rows of equal score in
\* source order and then within-source order.
C8_StableTop ==
    (displayedBy # 0 /\ lastDone.scope = ALL) =>
        /\ RowSet(displayed) \subseteq OkRows(lastDone)
        /\ Len(displayed) = Min(lastDone.limit, Cardinality(OkRows(lastDone)))
        /\ \A k \in 1..(Len(displayed) - 1) : Before(lastDone, displayed[k], displayed[k + 1])
        /\ \A r \in OkRows(lastDone) \ RowSet(displayed) :
              \A k \in 1..Len(displayed) : Before(lastDone, displayed[k], r)

C8_Witness ==
    /\ displayedBy # 0
    /\ lastDone.scope = ALL
    /\ Cardinality(OkRows(lastDone)) > lastDone.limit
    /\ \E k \in 1..(Len(displayed) - 1) :
          /\ displayed[k].score = displayed[k + 1].score
          /\ displayed[k].db # displayed[k + 1].db
    /\ \E r \in OkRows(lastDone) \ RowSet(displayed) : r.score = displayed[Len(displayed)].score

ScoresOf(rows) == [k \in 1..Len(rows) |-> rows[k].score]
\* The scores of the best `limit` rows among all the qualifying rows the
\* sources of a completed search hold.
TrueTopScores(rec) ==
    ScoresOf(Merge([i \in 1..Len(rec.dbs) |->
                       Ok(Rows(Qualifying(corpus[rec.dbs[i]], rec.minScore), rec.dbs[i]))],
                   rec.limit))
\* The quota of the specification: max(5, ceil(limit / sourceCount) + 1).
SpecQuota(limit, n) == Max(5, CeilDiv(limit, n) + 1)
HeldBy(rec, i) == Len(Qualifying(corpus[rec.dbs[i]], rec.minScore))

\* C9 as stated: the rendered rows of an ALL-scope search are the true global
\* top-`limit` rows by score.
C9_TrueTop ==
    (displayedBy # 0 /\ lastDone.scope = ALL) =>
        ScoresOf(displayed) = TrueTopScores(lastDone)

\* C9 amended: they are whenever the quota reaches the limit or no source
\* holds more qualifying rows than the quota.
C9_TrueTopWithinQuota ==
    (/\ displayedBy # 0
     /\ lastDone.scope = ALL
     /\ LET q == SpecQuota(lastDone.limit, Len(lastDone.dbs))
        IN \/ q >= lastDone.limit
           \/ \A i \in 1..Len(lastDone.dbs) : HeldBy(lastDone, i) <= q)
    => ScoresOf(displayed) = TrueTopScores(lastDone)

C9_Witness ==
    /\ displayedBy # 0
    /\ lastDone.scope = ALL
    /\ lastDone.limit = 5
    /\ HeldBy(lastDone, 1) = 7
    /\ HeldBy(lastDone, 2) = 0
    /\ Len(displayed) = 5

\* C10: a submit whose trimmed query is empty, or with no scope selected,
\* issues no request and starts no search.
C10_RejectedBeforeDispatch ==
    [][\A q \in Queries :
          (performPanelSearch(q) /\ (q = "" \/ searchDbValue = NoDb)) =>
              /\ listReqs' = listReqs
              /\ searchReqs' = searchReqs
              /\ searches' = searches
              /\ resultsView' \in {"enterQuery", "selectDb"}]_vars

C10_Witness ==
    /\ resultsView = "selectDb"
    /\ listReqs = 0 /\ searchReqs = 0
    /\ \A s \in SearchIds : searches[s].st = "none"

\* C11: a single-source submit issues exactly one search request, carrying
\* the limit and the minimum score of the form; when that request fails, with
\* a non-success status or an exception, no rows are shown and one failed
\* source is reported.
C11_SingleFailureReported ==
    [][/\ (performPanelSearch("q") /\ searchDbValue \notin {NoDb, ALL}) =>
            /\ searchReqs' = searchReqs + 1
            /\ listReqs' = listReqs
            /\ \E s \in SearchIds :
                  /\ searches[s].st = "none"
                  /\ searches'[s].st = "single"
                  /\ searches'[s].perDb = ParseLimit(limitValue)
                  /\ searches'[s].minScore = minScoreValue
       /\ \A s \in SearchIds, o \in {"http", "net"} :
             SingleSettled(s, o, <<>>) =>
                 /\ displayed' = <<>>
                 /\ FailedShown' = 1
                 /\ searchReqs' = searchReqs]_vars

NumFailed(rec) == Cardinality({i \in 1..Len(rec.resp) : rec.resp[i].st = "failed"})

\* C12: the panel shows, with the rendered result set of a search, the
\* number of its sources whose request failed.
C12_FailedCountShown ==
    displayedBy # 0 => FailedShown = NumFailed(lastDone)

\* C13: an ALL-scope search renders only in the step in which it completes,
\* when every per-source request has settled, and then the merge of all the
\* responses; while it is in flight nothing shown is its own.
C13_NoPartialRender ==
    [][\A s \in SearchIds :
          /\ searches[s].st \in {"list", "fan"} => displayedBy # s
          /\ (searches[s].st \in {"list", "fan"} /\ displayedBy' = s) =>
                /\ searches'[s].st = "done"
                /\ Len(lastDone'.resp) = Len(lastDone'.dbs)
                /\ AllSettled(lastDone'.resp)
                /\ displayed' = Merge(lastDone'.resp, lastDone'.limit)]_vars

C13_Witness ==
    \E s \in SearchIds :
        /\ searches[s].st = "fan"
        /\ \E i \in 1..Len(searches[s].resp) :
              searches[s].resp[i].st = "ok" /\ searches[s].resp[i].rows # <<>>
        /\ \E i \in 1..Len(searches[s].resp) : searches[s].resp[i].st = "pending"
        /\ resultsView = "searching"
        /\ displayed = <<>>

\* C14: the search that settles shows its outcome whatever other search is
\* in flight and whichever was submitted first, and leaves the others running:
\* the one that settles last is the one shown.
C14_LastSettledShown ==
    [][\A s \in SearchIds :
          (InFlight(s) /\ searches'[s].st = "done") =>
              /\ \A t \in SearchIds \ {s} : searches'[t] = searches[t]
              /\ \/ /\ displayedBy' = s
                    /\ lastDone'.scope = searches[s].scope
                    /\ displayed' = Merge(lastDone'.resp, searches[s].limit)
                 \/ /\ resultsView' = "failed"
                    /\ displayed' = <<>>]_vars

\* The search submitted first settled last, and its rows are the ones shown.
C14_Witness ==
    /\ searches[1].st = "done"
    /\ searches[2].st = "done"
    /\ displayedBy = 1
    /\ resultsView = "rows"

\* Some request of search s can settle.
CanSettle(s) ==
    \/ ListSettled(s, "http", <<>>)
    \/ \E i \in 1..Len(SourceNames) : SourceSettled(s, i, "http", <<>>)
    \/ SingleSettled(s, "http", <<>>)

\* C15: closing the panel or submitting a search changes no request in
\* flight; every search and save in flight can still settle, open or closed;
\* a search that completes on the closed panel still writes its outcome.
C15_NoCancellation ==
    /\ [][(isPanelOpen /\ ~isPanelOpen') => (searches' = searches /\ saves' = saves)]_vars
    /\ [][performPanelSearch("q") =>
             /\ saves' = saves
             /\ \A s \in SearchIds : InFlight(s) => searches'[s] = searches[s]]_vars
    /\ [](\A s \in SearchIds : InFlight(s) => ENABLED CanSettle(s))
    /\ [](\A s \in SaveIds : saves[s].st = "flight" => ENABLED SaveSettled(s, "ok"))
    /\ [][\A s \in SearchIds :
             (~isPanelOpen /\ InFlight(s) /\ searches'[s].st = "done") =>
                 (displayedBy' = s \/ resultsView' = "failed")]_vars

C15_Witness ==
    /\ ~isPanelOpen
    /\ completedClosed
    /\ resultsView = "rows"
    /\ closedCompletion

\* C16: the entries of the composed context are in ascending order of the
\* rank of the result they were taken from.
C16_AscendingRank ==
    \A k \in 1..(Len(contextText) - 1) : contextText[k].index < contextText[k + 1].index

\* C17: composing the context yields one entry per selected index, numbered
\* 1..k, each carrying the result displayed at that index, and as many entries
\* as the selection count shown.
C17_OneEntryPerSelected ==
    [][CreateContext =>
          /\ Len(contextText') = Len(searchSelectedResults)
          /\ Len(contextText') = countText
          /\ {contextText'[k].index : k \in 1..Len(contextText')}
                = {searchSelectedResults[k] : k \in 1..Len(searchSelectedResults)}
          /\ \A k \in 1..Len(contextText') :
                /\ contextText'[k].ordinal = k
                /\ contextText'[k].index + 1 \in 1..Len(displayed)
                /\ contextText'[k].item = displayed[contextText'[k].index + 1]]_vars

\* C18: a toggle of i flips the membership of i and of nothing else; Select
\* All over n rows selects 0..n-1; Clear empties the selection; the count
\* shown is the size of the selection.
C18_ToggleFlips ==
    /\ [][\A i \in 0..(MaxRows - 1) :
             ToggleResult(i) =>
                 /\ SetHas(searchSelectedResults', i) # SetHas(searchSelectedResults, i)
                 /\ \A j \in 0..(MaxRows - 1) \ {i} :
                       SetHas(searchSelectedResults', j) = SetHas(searchSelectedResults, j)]_vars
    /\ [][SelectAll =>
             {searchSelectedResults'[k] : k \in 1..Len(searchSelectedResults')}
                = 0..(Len(displayed) - 1)]_vars
    /\ [][ClearSelection => searchSelectedResults' = <<>>]_vars
    /\ [](countText = Len(searchSelectedResults))

\* C19: a captured selection longer than three characters leaves the panel
\* open, whether it was closed or open and whichever tab is the active one,
\* with the captured text as the pending text and the Add tab's preview
\* showing it (cut to its first 200 characters when longer).
C19_CaptureRefreshesPreview ==
    [][\A t \in LongTexts, typing \in BOOLEAN :
          SelectionCaptured(t, typing) =>
              /\ isPanelOpen'
              /\ selectedText' = t
              /\ previewText' = Preview(t)
              /\ previewVisible'
              /\ activePanelTab' = activePanelTab]_vars

\* A capture while the Search tab is the active one.
C19_Witness ==
    /\ isPanelOpen
    /\ activePanelTab = "search"
    /\ selectedText = "text2"
    /\ previewText = "text2"
    /\ previewVisible

\* C20: once the settings are loaded and the start-up write is done, the tab
\* shown, the in-memory active tab and the stored tab agree; and a stored
\* last-used tab is not replaced while the user switches no tab.
C20_TabsAgree ==
    /\ []((settings = "loaded" /\ tabWrite = "none") =>
             (visibleTab = activePanelTab /\ storedTab = activePanelTab))
    /\ [][storedTab # "none" => storedTab' = storedTab]_vars

\* C21: an empty selection clears the pending text and its preview and
\* leaves the panel open or closed as it was, with its tab, its minimized
\* flag, the rendered results and the selection over them.
C21_ClearedFrame ==
    [][SelectionCleared =>
          /\ selectedText' = "" /\ previewText' = "" /\ ~previewVisible'
          /\ UNCHANGED <<isPanelOpen, activePanelTab, visibleTab, minimized>>
          /\ UNCHANGED <<resultsView, displayed, displayedBy, searchSelectedResults,
                         checkedBoxes, countText>>]_vars

\* The text was cleared on the open, minimized panel with a result ticked.
C21_Witness ==
    /\ isPanelOpen
    /\ selectedText = ""
    /\ ~previewVisible
    /\ minimized
    /\ displayed # <<>>
    /\ searchSelectedResults # <<>>

\* C22: the minimize toggle flips the flag and nothing else, so that two
\* toggles restore the state; opening, closing and switching tab leave the
\* flag as it is.
C22_MinimizeOrthogonal ==
    /\ [][togglePanelMinimized =>
             /\ minimized' = ~minimized
             /\ UNCHANGED <<addVars, searchVars, tabVars>>]_vars
    /\ [][(isPanelOpen' # isPanelOpen \/ activePanelTab' # activePanelTab
             \/ visibleTab' # visibleTab \/ tabWrite' # tabWrite)
             => minimized' = minimized]_vars

\* The panel was closed while minimized, on the Search tab, a save in flight.
C22_Witness ==
    /\ minimized
    /\ ~isPanelOpen
    /\ visibleTab = "search"
    /\ \E s \in SaveIds : saves[s].st = "flight"

\* C23: a tab switch makes the tab the active one, writes it to the settings
\* store and starts a load of the source list of that tab.
C23_SwitchLoads ==
    [][\A tab \in {"add", "search"} :
          switchPanelTab(tab) =>
              /\ activePanelTab' = tab
              /\ tabWrite' = tab
              /\ tab = "search" => searchLoads' = searchLoads + 1
              /\ tab = "add" => panelLoads' = panelLoads + 1]_vars

C27_EmptyListNoRequest ==
    [][\A s \in SearchIds, o \in {"ok", "http"} :
          ListSettled(s, o, <<>>) =>
              /\ searches'[s].st = "done"
              /\ displayed' = <<>>
              /\ resultsView' = "noResults"
              /\ summary' = 0
              /\ searchReqs' = searchReqs]_vars

C27_Witness ==
    /\ lastDone.scope = ALL
    /\ lastDone.st = "done"
    /\ lastDone.dbs = <<>>
    /\ resultsView = "noResults"
    /\ listReqs = 1
    /\ searchReqs = 0

\* C28: when the source list of an ALL-scope search comes back with n >= 1
\* sources, n search requests are issued, one per listed source in the order
\* of the list, each with the quota max(5, ceil(limit / n) + 1) and the
\* minimum score of the submission.
C28_OneRequestPerSource ==
    [][\A s \in SearchIds, list \in MergeLists :
          (ListSettled(s, "ok", list) /\ Len(list) >= 1) =>
              /\ searchReqs' = searchReqs + Len(list)
              /\ listReqs' = listReqs
              /\ searches'[s].st = "fan"
              /\ searches'[s].dbs = list
              /\ searches'[s].resp = [i \in 1..Len(list) |-> Pending]
              /\ searches'[s].perDb = SpecQuota(searches[s].limit, Len(list))
              /\ searches'[s].minScore = searches[s].minScore]_vars

\* Limit 20 over three sources: three requests of quota 8.
C28_Witness ==
    \E s \in SearchIds :
        /\ searches[s].st = "fan"
        /\ searches[s].limit = 20
        /\ Len(searches[s].dbs) = 3
        /\ searches[s].perDb = 8
        /\ searchReqs = 3

\* C29: every search in flight completes once its requests settle, on every
\* path, and the step that completes it replaces 'Searching...' by the rows,
\* 'No results.' or 'Search failed.'.
C29_SearchTerminates ==
    /\ \A s \in SearchIds : InFlight(s) ~> searches[s].st = "done"
    /\ [][\A s \in SearchIds :
             (InFlight(s) /\ searches'[s].st = "done") =>
                 resultsView' \in {"rows", "noResults", "failed"}]_vars

\* Both searches have completed, the later one through the catch branch.
C29_Witness ==
    /\ \A s \in SearchIds : searches[s].st = "done"
    /\ resultsView = "failed"

\* C24: a createDatabase for a name that an earlier createDatabase succeeded
\* for is rejected with 'Database already exists' and sends no request.
C24_SecondCreateRejected ==
    [][\A name \in PopupNames, viaEnter \in BOOLEAN :
          (createDatabase(name, viaEnter) /\ name \in created) =>
              /\ createReqs' = createReqs
              /\ popupNotice' = "exists"]_vars

\* C25: a DELETE is issued only by a confirmed deleteDatabase; a declined
\* one issues nothing and leaves the cached list, the rendered list and the
\* backend as they were.
C25_DeleteNeedsConfirm ==
    /\ [][\A name \in PopupNames :
             deleteDatabase(name, FALSE) =>
                 UNCHANGED <<deleteReqs, popupOps, databases, listShown, backendDbs>>]_vars
    /\ [][deleteReqs' # deleteReqs =>
             /\ deleteReqs' = deleteReqs + 1
             /\ \E name \in PopupNames : deleteDatabase(name, TRUE)]_vars
    /\ [][backendDbs' \subseteq backendDbs /\ backendDbs' # backendDbs =>
             \E o \in OpIds : popupOps[o].kind = "delete" /\ DeleteSettled(o, "ok")]_vars

\* One deletion declined, another confirmed and sent.
C25_Witness ==
    /\ declined = 1
    /\ deleteReqs = 1

\* C26: a panel operation (source-list load, save, search) that starts after
\* the backend address was changed in the settings store sends its request to
\* the changed address, whatever the order of the settings load and the
\* change notifications.
StoredAddress == IF storedUrl = "none" THEN DefaultUrl ELSE storedUrl
OperationStarts ==
    \/ panelLoads' > panelLoads
    \/ searchLoads' > searchLoads
    \/ SaveRequested
    \/ \E q \in Queries :
          performPanelSearch(q) /\ (listReqs' > listReqs \/ searchReqs' > searchReqs)
C26_NextOperationUsesStoredAddress ==
    [][OperationStarts => RequestUrl = StoredAddress]_vars

\* C31: an add-text request goes in flight only in a save action taken with a
\* non-empty pending text and a chosen database; a save action rejected by the
\* validation sends nothing and leaves the panel idle.
C31_SaveValidated ==
    /\ [][(\E s \in SaveIds : saves[s].st # "flight" /\ saves'[s].st = "flight") =>
             (SaveRequested /\ selectedText # "" /\ dbValue # NoDb)]_vars
    /\ [][(SaveRequested /\ (selectedText = "" \/ dbValue = NoDb)) =>
             (saves' = saves /\ Idle')]_vars

\* A save was rejected (its notice is scheduled while no save has settled) and
\* another was dispatched.
C31_Witness ==
    /\ "notifShow" \in timers
    /\ \A s \in SaveIds : saves[s].st \in {"none", "flight"}
    /\ \E s \in SaveIds : saves[s].st = "flight"

\* C32: while an add-text request is in flight the save button is disabled,
\* and no second add-text request is in flight.
SavesInFlight == {s \in SaveIds : saves[s].st = "flight"}
C32_OneSaveInFlight ==
    SavesInFlight # {} => (saveDisabled /\ Cardinality(SavesInFlight) = 1)

\* C33: in every reachable state the save button is enabled only if the
\* pending text is non-empty and a target database is selected.
C33_SaveEnabledOnlyWhenValid ==
    ~saveDisabled => (selectedText # "" /\ dbValue # NoDb)

\* C34: the delayed cleanup scheduled by a successful save clears only the
\* text that was saved: when it fires, a pending text it clears is the text of
\* a save that succeeded.
C34_CleanupClearsSavedText ==
    [][(TimerFired("clearText") /\ selectedText # "") =>
          \E s \in SaveIds : saves[s].st = "ok" /\ saves[s].text = selectedText]_vars

\* C35: once the results are cleared, the results area and the summary stay
\* empty until a search is submitted: no other step, in particular the
\* settlement of a search in flight at the clear, fills them.
C35_ClearedStaysEmpty ==
    [][(resultsView = "blank" /\ summary = -1 /\
            ~(\E q \in Queries : performPanelSearch(q))) =>
          (resultsView' = "blank" /\ summary' = -1 /\ displayed' = <<>>)]_vars

\* C36: a composed context visible beside a rendered result set is built from
\* that result set: each of its entries is the row now displayed at the
\* entry's index.
ContextShown == actionsVisible /\ contextVisible
C36_ContextFromDisplayed ==
    (ContextShown /\ resultsView = "rows") =>
        \A k \in 1..Len(contextText) :
            /\ contextText[k].index + 1 \in 1..Len(displayed)
            /\ displayed[contextText[k].index + 1] = contextText[k].item

C38_ListFailureHandled ==
    [][\A s \in SearchIds, o \in {"http", "net"} :
          ListSettled(s, o, <<>>) =>
             /\ searches'[s].st = "done"
             /\ searchReqs' = searchReqs
             /\ resultsView' = (IF o = "http" THEN "noResults" ELSE "failed")
             /\ displayed' = <<>>
             /\ searchSelectedResults' = <<>>]_vars

\* C39: in every reachable state the Create Context button is disabled exactly
\* when the selection set is empty, and the selected-count shown is the size
\* of the selection set.
C39_SelectionUIAgrees ==
    /\ createDisabled = (searchSelectedResults = <<>>)
    /\ countText = Len(searchSelectedResults)

\* Two rows are ticked: the count shows 2 and the button is enabled.
C39_Witness ==
    /\ Len(searchSelectedResults) = 2
    /\ checkedBoxes = {0, 1}
    /\ countText = 2
    /\ ~createDisabled

\* C40: a create attempt that sent its request ends, on success, on a
\* non-success status and on a network exception, with the Create Database
\* button enabled and showing its idle label; the button never stays in the
\* 'Creating...' state.
C40_CreateButtonRestored ==
    /\ [][\A o \in OpIds :
             (popupOps[o].kind = "create" /\ popupOps'[o] = OpDone) =>
                createBtn' = "idle"]_vars
    /\ (createBtn = "creating") ~> (createBtn = "idle")

\* One create failed and one succeeded; none is in flight and the button is
\* idle.
C40_Witness ==
    /\ createBtn = "idle"
    /\ created # {}
    /\ popupNotice = "createError"
    /\ \A o \in OpIds : popupOps[o].kind # "create"

====
